---- MODULE Spec2Model ----
(***************************************************************************)
(* Console menu navigator (scripts/utils/console: menu.py, option.py,      *)
(* action.py) and console input engine (scripts/utils/ui/input.py) of      *)
(* WasteVision, as state machines.                                         *)
(*                                                                         *)
(* Text is a sequence of one-character strings so that strip(), lower(),   *)
(* split(',') and int() are computed as Python computes them.              *)
(***************************************************************************)
EXTENDS Integers, Sequences, FiniteSets, TLC

\* ------------------------------------------------------------------ bounds
NumOpts == 2        \* Options supplied to each Menu at construction
MaxDepth == 2       \* nested display() calls on the call stack
MaxFlips == 1       \* set_visible/set_enabled calls made by Actions in a run
MaxCalls == 2       \* configuration calls chained on an Input before get_input

\* ------------------------------------------------------------ text helpers
Digits == {"0", "1", "2", "3", "4", "5", "6", "7", "8", "9"}

DigitVal == ("0" :> 0) @@ ("1" :> 1) @@ ("2" :> 2) @@ ("3" :> 3) @@ ("4" :> 4)
            @@ ("5" :> 5) @@ ("6" :> 6) @@ ("7" :> 7) @@ ("8" :> 8) @@ ("9" :> 9)

DigitChar == <<"1", "2", "3", "4", "5", "6", "7", "8", "9">>

Uppers == <<"A", "B", "C", "D", "E", "F", "G", "H", "I", "J", "K", "L", "M",
            "N", "O", "P", "Q", "R", "S", "T", "U", "V", "W", "X", "Y", "Z">>

Lowers == <<"a", "b", "c", "d", "e", "f", "g", "h", "i", "j", "k", "l", "m",
            "n", "o", "p", "q", "r", "s", "t", "u", "v", "w", "x", "y", "z">>

\* str.lower(), one character
LowerChar(c) ==
    IF \E i \in 1..Len(Uppers) : Uppers[i] = c
    THEN Lowers[CHOOSE i \in 1..Len(Uppers) : Uppers[i] = c]
    ELSE c

\* str.lower()
Lower(s) == [i \in 1..Len(s) |-> LowerChar(s[i])]

RECURSIVE LStrip(_)
LStrip(s) == IF s # <<>> /\ Head(s) = " " THEN LStrip(Tail(s)) ELSE s

RECURSIVE RStrip(_)
RStrip(s) == IF s # <<>> /\ s[Len(s)] = " " THEN RStrip(SubSeq(s, 1, Len(s) - 1)) ELSE s

\* str.strip()
Strip(s) == RStrip(LStrip(s))

RECURSIVE DigitsValue(_, _)
DigitsValue(s, acc) == IF s = <<>> THEN acc ELSE DigitsValue(Tail(s), 10 * acc + DigitVal[Head(s)])

AllDigits(s) == s # <<>> /\ \A i \in 1..Len(s) : s[i] \in Digits

\* int(text) with the sign dropped
ParseInt_Magnitude(s) ==
    LET t == Strip(s)
        signed == t # <<>> /\ Head(t) \in {"+", "-"}
        body == IF signed THEN Tail(t) ELSE t
    IN IF AllDigits(body) THEN [ok |-> TRUE, n |-> DigitsValue(body, 0)]
       ELSE [ok |-> FALSE, n |-> 0]

\* int(text): ok = FALSE stands for ValueError
ParseInt(s) ==
    LET t == Strip(s)
        signed == t # <<>> /\ Head(t) \in {"+", "-"}
        body == IF signed THEN Tail(t) ELSE t
    IN IF AllDigits(body)
       THEN [ok |-> TRUE,
             n |-> IF signed /\ Head(t) = "-" THEN 0 - DigitsValue(body, 0)
                   ELSE DigitsValue(body, 0)]
       ELSE [ok |-> FALSE, n |-> 0]

\* --------------------------------------------------------------- the menus
\* Menu 1 is parentless; Menu 2 is its submenu (create_submenu).
Menus == {1, 2}

Parent == (1 :> 0) @@ (2 :> 1)

\* Option(name, description, action) with the dataclass defaults
NewOption(name, act) == [name |-> name, enabled |-> TRUE, visible |-> TRUE, act |-> act]

\* the Options handed to Menu(...): each wraps an Action on an external callable
SuppliedOptions == [i \in 1..NumOpts |-> NewOption("opt", "ext")]

\* Menu.add_option
add_option(options, option) == Append(options, option)

\* Menu._init_default_options: the effect on self.options
init_default_options(options, parent) ==
    IF parent # 0 THEN add_option(options, NewOption("back", "noop")) ELSE options

\* Menu.__init__
MenuInit(m) == init_default_options(SuppliedOptions, Parent[m])

\* the menu navigator: the Options of each Menu, the stack of running
\* display() calls, the top-level driver, the Menu run as main, and the
\* record of the last step
VARIABLES opts, stack, driver, main, flips, ev, exitRequested

\* the input engine: the Input object, where its user is (building it, inside
\* get_input, or past it), the value get_input returned, the number of
\* configuration calls made, the record of the last read, and the local
\* selected_values of get_input as the last pass left it
VARIABLES inp, ipc, ires, icalls, iev, isel

\* the form: the record of the last submit of a FormGenerator holding the Input
VARIABLE fev

\* the Action objects: the Action built, the modules import_module can find
\* with the names each defines, the record of the last execute(), and the
\* Option that execute() is called on directly, and the record of the last
\* such call
VARIABLES action, modules, aev, option1, oev

\* the Action as its constructor left it, before any attribute was assigned
VARIABLE built

menuVars == <<opts, stack, driver, main, flips, ev, exitRequested>>

inputVars == <<inp, ipc, ires, icalls, iev, isel, fev>>

actionVars == <<action, modules, aev, option1, oev, built>>

vars == <<menuVars, inputVars, actionVars>>

\* ----------------------------------------------------- values and outcomes
\* what a call returns or raises: k is "none" (None), "val" (a non-Menu value
\* v), "menu" (the Menu v) or "raise" (the exception exc)
None == [k |-> "none", v |-> 0, exc |-> ""]

Val(n) == [k |-> "val", v |-> n, exc |-> ""]

MenuVal(m) == [k |-> "menu", v |-> m, exc |-> ""]

Raise(e) == [k |-> "raise", v |-> 0, exc |-> e]

NoReturn == [k |-> "noreturn", v |-> 0, exc |-> ""]

\* the non-Menu values an external callable returns: a falsy and a truthy one
Values == {0, 42}

\* Python's hierarchy: these derive from Exception ...
ExceptionKinds == {"ValueError", "ImportError", "AttributeError", "RuntimeError", "EOFError"}

\* ... and KeyboardInterrupt derives from BaseException only
CancelKinds == {"EOFError", "KeyboardInterrupt"}

ErrorKinds == ExceptionKinds \ CancelKinds

NoSet == [m |-> 0, i |-> 0, f |-> ""]

\* Option.set_visible / Option.set_enabled on option i of menu m, called by an
\* external callable with the negation of the current flag
ApplySet(o, s) ==
    IF s.m = 0 THEN o
    ELSE IF s.f = "visible"
         THEN [o EXCEPT ![s.m][s.i].visible = ~ @]
         ELSE [o EXCEPT ![s.m][s.i].enabled = ~ @]

SetCalls(o) == {s \in [m : Menus, i : 1..(NumOpts + 1), f : {"visible", "enabled"}] : s.i <= Len(o[s.m])}

\* what the external collaborator behind an Action can do (spec section 6):
\* return nothing, a value or a Menu, or raise; a read of an input field inside
\* it raises EOFError or KeyboardInterrupt on cancellation (Input.get_input)
ExternalResults(canNest) ==
    {None} \cup {Val(n) : n \in Values}
    \cup (IF canNest THEN {MenuVal(m) : m \in Menus} ELSE {})
    \cup {Raise(e) : e \in ExceptionKinds \cup {"KeyboardInterrupt"}}

\* Action.execute / FunctionAction.execute: the result is the callable's, and
\* every exception is printed and re-raised unchanged. The callable of the
\* synthesized Options is lambda: None; an external callable that changes a
\* flag of an Option returns nothing
ActionExecute(act, o, canNest, canSet) ==
    IF act = "noop" THEN {[res |-> None, set |-> NoSet, invoked |-> TRUE]}
    ELSE {[res |-> r, set |-> NoSet, invoked |-> TRUE] : r \in ExternalResults(canNest)}
         \cup {[res |-> None, set |-> s, invoked |-> TRUE] :
                    s \in (IF canSet THEN SetCalls(o) ELSE {})}

\* Option.execute
OptionExecute_VisibleOnly(option, o, canNest, canSet) ==
    IF ~ option.enabled \/ ~ option.visible
    THEN {[res |-> Raise("RuntimeError"), set |-> NoSet, invoked |-> FALSE]}
    ELSE ActionExecute(option.act, o, canNest, canSet)

OptionExecute(option, o, canNest, canSet) ==
    IF ~ option.enabled THEN {[res |-> Raise("RuntimeError"), set |-> NoSet, invoked |-> FALSE]}
    ELSE ActionExecute(option.act, o, canNest, canSet)

\* Option.set_enabled and Option.set_visible
set_enabled(option, enabled) == [option EXCEPT !.enabled = enabled]

set_visible(option, visible) == [option EXCEPT !.visible = visible]

\* line 66: what the RuntimeError of a disabled Option says
DisabledMessage(option) == <<"Cannot execute disabled option: ", option.name>>

\* Option.execute called on an Option directly: what it did and, when it
\* raised before calling the Action, the message of the exception
OptionExecuted(option, out) ==
    [op |-> "execute", option |-> option, out |-> out,
     msg |-> IF ~ out.invoked THEN DisabledMessage(option) ELSE <<>>]

NoOptionExecute ==
    [op |-> "none", option |-> NewOption("opt", "noop"),
     out |-> [res |-> NoReturn, set |-> NoSet, invoked |-> FALSE], msg |-> <<>>]

\* ------------------------------------------------- Action and FunctionAction
\* the dotted module paths an Action is built with
ScriptPaths == {"scripts.a", "scripts.b"}

\* the names a module can define; "run" is the default entry_function
AttrNames == {<<"r", "u", "n">>, <<"m", "a", "i", "n">>, <<"_", "h">>}

\* a path import_module finds no module for
NoModule == [found |-> FALSE, names |-> {}]

\* Action.__init__ and FunctionAction.__init__: nothing is imported or looked up
Action_init(script_path, entry_function) ==
    [variant |-> "deferred", script_path |-> script_path, entry_function |-> entry_function]

FunctionAction_init == [variant |-> "direct", script_path |-> "", entry_function |-> <<>>]

NoAction == [variant |-> "none", script_path |-> "", entry_function |-> <<>>]

\* what execute() did: the path and the entry function it worked on, what it
\* returned or raised, whether the callable was called and what it did, which
\* diagnostic was printed ("importing", "attribute", "executing", "function"
\* or none), the identity the diagnostic names and the names it lists
Executed(a, res, invoked, printed, ident, listed) ==
    [op |-> "execute", variant |-> a.variant, script_path |-> a.script_path,
     entry_function |-> a.entry_function, res |-> res, invoked |-> invoked,
     printed |-> printed, ident |-> ident, listed |-> listed]

NoExecute == [Executed(NoAction, NoReturn, FALSE, "", <<>>, {}) EXCEPT !.op = "none"]

\* line 70: the names of dir(module) that do not start with an underscore
available_All(module) == module.names

available(module) == {attr \in module.names : Head(attr) # "_"}

\* lines 80-88: the except clause that catches an exception raised inside the
\* try block, wherever in the block it was raised; KeyboardInterrupt is
\* caught by none
ExceptClause(exc) ==
    IF exc = "ImportError" THEN "importing"
    ELSE IF exc = "AttributeError" THEN "attribute"
    ELSE IF exc \in ExceptionKinds THEN "executing"
    ELSE ""

\* what the diagnostic of each clause names: line 81 the path, line 87 the
\* path and the entry function, line 84 only what the exception itself says
ClauseIdent(a, clause) ==
    IF clause = "importing" THEN <<a.script_path>>
    ELSE IF clause = "executing" THEN <<a.script_path, a.entry_function>>
    ELSE <<>>

\* execute() working on the path and the entry function the constructor was given
Action_execute_AsBuilt(a, found, did) ==
    IF ~ found[built.script_path].found
    THEN Executed(built, Raise("ImportError"), FALSE, "importing", <<built.script_path>>, {})
    ELSE IF built.entry_function \notin found[built.script_path].names
    THEN Executed(built, Raise("AttributeError"), FALSE, "attribute",
                  <<built.script_path, built.entry_function>>, available(found[built.script_path]))
    ELSE IF did.k = "raise"
    THEN Executed(built, did, TRUE, ExceptClause(did.exc), ClauseIdent(built, ExceptClause(did.exc)), {})
    ELSE Executed(built, did, TRUE, "", <<>>, {})

\* Action.execute, lines 66-88; did is what the entry function does when called
Action_execute(a, found, did) ==
    IF ~ found[a.script_path].found
    THEN Executed(a, Raise("ImportError"), FALSE, "importing", <<a.script_path>>, {})
    ELSE IF a.entry_function \notin found[a.script_path].names
    THEN Executed(a, Raise("AttributeError"), FALSE, "attribute",
                  <<a.script_path, a.entry_function>>, available(found[a.script_path]))
    ELSE IF did.k = "raise"
    THEN Executed(a, did, TRUE, ExceptClause(did.exc), ClauseIdent(a, ExceptClause(did.exc)), {})
    ELSE Executed(a, did, TRUE, "", <<>>, {})

\* FunctionAction.execute, lines 136-140
FunctionAction_execute(a, did) ==
    IF did.k = "raise" /\ did.exc \in ExceptionKinds
    THEN Executed(a, did, TRUE, "function", <<"func.__name__">>, {})
    ELSE Executed(a, did, TRUE, "", <<>>, {})

\* ------------------------------------------------------------ Menu.display
\* line 140: the indices of self.options whose Option is visible, in list order
RECURSIVE VisibleFrom(_, _)
VisibleFrom(options, i) ==
    IF i > Len(options) THEN <<>>
    ELSE (IF options[i].visible THEN <<i>> ELSE <<>>) \o VisibleFrom(options, i + 1)

\* every Option is numbered, hidden ones too
VisibleOptions_All(options) == [i \in 1..Len(options) |-> i]

VisibleOptions(options) == VisibleFrom(options, 1)

\* lines 136-147: one Rendering pass of menu m, up to the blocking choice read
Render(m, o) == [menu |-> m, pc |-> "choice", vis |-> VisibleOptions(o[m])]

\* a frame of display() blocked at a read that is not the choice read, or
\* inside the nested result.display() call of line 175 (pc = "in175")
At(m, pc) == [menu |-> m, pc |-> pc, vis |-> <<>>]

Top(stk) == stk[Len(stk)]

Pop(stk) == SubSeq(stk, 1, Len(stk) - 1)

\* main(): what the top-level driver does with an exception leaving run_as_main
TopLevel(exc) == IF exc = "KeyboardInterrupt" THEN "interrupted" ELSE "failed"

\* only the ValueError clause
Handler_ValueErrorOnly(exc) == IF exc = "ValueError" THEN "ack185" ELSE ""

\* the except clauses of display(), lines 183-188: the read the handler blocks
\* at, or "" when no clause matches
Handler(exc) ==
    IF exc = "ValueError" THEN "ack185"
    ELSE IF exc \in ExceptionKinds THEN "ack188"
    ELSE ""

\* the top frame of stk goes on to block at the read pc, in the same display()
Goto(stk, pc) == [stack |-> Append(Pop(stk), At(Top(stk).menu, pc)), driver |-> "running", ret |-> NoReturn]

\* an exception raised in the top frame of stk, inside (inTry) or outside the
\* try block of lines 158-182; a caller frame is always inside it (line 175)
RECURSIVE Propagate(_, _, _)
Propagate(stk, exc, inTry) ==
    IF stk = <<>> THEN [stack |-> <<>>, driver |-> TopLevel(exc), ret |-> NoReturn]
    ELSE IF inTry /\ Handler(exc) # "" THEN Goto(stk, Handler(exc))
    ELSE Propagate(Pop(stk), exc, TRUE)

\* the main loop ends on whatever display() returns
run_as_main_Once(mm, val, o) == [stack |-> <<>>, driver |-> "returned", ret |-> val]

\* Menu.run_as_main: display() returned val to the main loop
run_as_main(mm, val, o) ==
    IF val.k = "none" THEN [stack |-> <<>>, driver |-> "returned", ret |-> val]
    ELSE [stack |-> <<Render(mm, o)>>, driver |-> "running", ret |-> val]

\* line 175 as "return result.display()" for a non-null result
RECURSIVE Return_Propagating(_, _, _)
Return_Propagating(stk, val, o) ==
    IF Len(stk) = 1 THEN run_as_main(stk[1].menu, val, o)
    ELSE IF val.k = "none" THEN [Goto(Pop(stk), "ack179") EXCEPT !.ret = val]
    ELSE Return_Propagating(Pop(stk), val, o)

\* the top frame's display() returns val (ret): to line 175 of the caller
\* frame, which drops it and goes on to the read of line 179, or to run_as_main
Return(stk, val, o) ==
    IF Len(stk) = 1 THEN run_as_main(stk[1].menu, val, o)
    ELSE [Goto(Pop(stk), "ack179") EXCEPT !.ret = val]

\* line 176 as "elif result:"
HandleResult_Truthy(stk, res, o) ==
    IF res.k = "raise" THEN Propagate(stk, res.exc, TRUE)
    ELSE IF res.k = "menu"
         THEN [stack |-> Append(Goto(stk, "in175").stack, Render(res.v, o)),
               driver |-> "running", ret |-> NoReturn]
    ELSE IF res.k # "none" /\ res.v # 0 THEN Return(stk, res, o)
    ELSE Goto(stk, "ack179")

\* a null result ends the loop like any other
HandleResult_AnyReturns(stk, res, o) ==
    IF res.k = "raise" THEN Propagate(stk, res.exc, TRUE)
    ELSE IF res.k = "menu"
         THEN [stack |-> Append(Goto(stk, "in175").stack, Render(res.v, o)),
               driver |-> "running", ret |-> NoReturn]
    ELSE Return(stk, res, o)

\* lines 174-179: what display() does with the result of selected_option.execute()
HandleResult(stk, res, o) ==
    IF res.k = "raise" THEN Propagate(stk, res.exc, TRUE)
    ELSE IF res.k = "menu"
         THEN [stack |-> Append(Goto(stk, "in175").stack, Render(res.v, o)),
               driver |-> "running", ret |-> NoReturn]
    ELSE IF res.k # "none" THEN Return(stk, res, o)
    ELSE Goto(stk, "ack179")

\* lines 150 and 153
IsExit(choice) == choice = <<"0">>

\* line 153 without "and self.parent"
IsBack_AnyMenu(choice, m) == choice = <<"b", "a", "c", "k">>

IsBack(choice, m) == choice = <<"b", "a", "c", "k">> /\ Parent[m] # 0

\* line 160
InRange(idx, visible) == 0 <= idx /\ idx < Len(visible)

\* line 164 without the check
IsEnabled_Always(option) == TRUE

\* line 164
IsEnabled(option) == option.enabled

\* ------------------------------------------------------------ input engine
\* Python values: text, int, bool, None, pathlib.Path and list
Str(s) == [t |-> "str", s |-> s]

Int_(n) == [t |-> "int", n |-> n]

Bool(b) == [t |-> "bool", b |-> b]

PyNone == [t |-> "none"]

PathV(s) == [t |-> "path", s |-> s]

ListV(items) == [t |-> "list", items |-> items]

IsNumber(a) == a.t \in {"int", "bool"}

\* bool is a subclass of int: True == 1 and False == 0
Num(a) == IF a.t = "int" THEN a.n ELSE IF a.b THEN 1 ELSE 0

\* Python's ==
PyEq(a, b) ==
    IF IsNumber(a) /\ IsNumber(b) THEN Num(a) = Num(b)
    ELSE a = b

\* value in options
PyIn(value, items) == \E k \in 1..Len(items) : PyEq(value, items[k])

\* Input.__init__; options.set = FALSE is _options = None
NewInput ==
    [input_type |-> "str", validators |-> <<>>, default |-> PyNone, allow_empty |-> FALSE,
     options |-> [set |-> FALSE, items |-> <<>>], case_sensitive |-> TRUE,
     path_type |-> "", multiple |-> FALSE]

\* Input.type
type(i, input_type) == [i EXCEPT !.input_type = input_type]

\* Input.path; path_type "" is None
path(i, path_type) == [i EXCEPT !.input_type = "path", !.path_type = path_type]

\* Input.default
default(i, default_value) == [i EXCEPT !.default = default_value, !.allow_empty = TRUE]

\* Input.allow_empty
allow_empty(i, allow) == [i EXCEPT !.allow_empty = allow]

\* Input.options
options(i, items, case_sensitive, mult) ==
    [i EXCEPT !.options = [set |-> TRUE, items |-> items], !.case_sensitive = case_sensitive,
              !.multiple = mult]

\* Input.multiple
multiple(i, allow_multiple) == [i EXCEPT !.multiple = allow_multiple]

\* Input.validate
validate(i, validator) == [i EXCEPT !.validators = Append(@, validator)]

\* Input.range: the validator closes over min_val and max_val (has* = FALSE is None)
range(i, hasMin, min_val, hasMax, max_val) ==
    validate(i, [kind |-> "range", hasMin |-> hasMin, min |-> min_val,
                 hasMax |-> hasMax, max |-> max_val, regex |-> {}, msg |-> ""])

\* Input.pattern: the validator closes over the pattern and the message; the
\* patterns are one character class, given as the set of its characters
pattern(i, regex_pattern, error_msg) ==
    validate(i, [kind |-> "pattern", hasMin |-> FALSE, min |-> 0, hasMax |-> FALSE, max |-> 0,
                 regex |-> regex_pattern, msg |-> error_msg])

\* the default of the error_msg parameter of Input.pattern
PatternMessage == "Input doesn't match required pattern"

\* the decimal digits of a natural number
RECURSIVE Decimal(_)
Decimal(n) ==
    LET last == IF n % 10 = 0 THEN "0" ELSE DigitChar[n % 10]
    IN  IF n < 10 THEN <<last>> ELSE Append(Decimal(n \div 10), last)

\* str(value)
PyStr(value) ==
    IF value.t \in {"str", "path"} THEN value.s
    ELSE IF value.t = "int" THEN (IF value.n < 0 THEN <<"-">> \o Decimal(-value.n) ELSE Decimal(value.n))
    ELSE IF value.t = "bool" THEN (IF value.b THEN <<"T", "r", "u", "e">> ELSE <<"F", "a", "l", "s", "e">>)
    ELSE <<"N", "o", "n", "e">>

\* the patterns "[A-Z]" and "[a-z]"
UpperClass == {Uppers[k] : k \in 1..Len(Uppers)}

LowerClass == {Lowers[k] : k \in 1..Len(Lowers)}

\* re.match of a one-class pattern: the text starts with a character of the class
Match(regex_pattern, text) == text # <<>> /\ Head(text) \in regex_pattern

\* str.split(','): the text before the first comma, then the rest split
RECURSIVE SplitFrom(_, _)
SplitFrom(s, cur) ==
    IF s = <<>> THEN <<cur>>
    ELSE IF Head(s) = "," THEN <<cur>> \o SplitFrom(Tail(s), <<>>)
    ELSE SplitFrom(Tail(s), Append(cur, Head(s)))

Split(s) == SplitFrom(s, <<>>)

\* line 233: [s.strip() for s in raw_input.split(',')]
Selections(raw) == [k \in 1..Len(Split(raw)) |-> Strip(Split(raw)[k])]

TrueValues == {<<"t", "r", "u", "e">>, <<"t">>, <<"y", "e", "s">>, <<"y">>, <<"1">>}

FalseValues == {<<"f", "a", "l", "s", "e">>, <<"f">>, <<"n", "o">>, <<"n">>, <<"0">>}

\* Input._parse_bool; ok = FALSE is ValueError
parse_bool_CaseSensitive(value) ==
    IF value \in TrueValues THEN [ok |-> TRUE, value |-> Bool(TRUE)]
    ELSE IF value \in FalseValues THEN [ok |-> TRUE, value |-> Bool(FALSE)]
    ELSE [ok |-> FALSE, value |-> PyNone]

parse_bool(value) ==
    IF Lower(value) \in TrueValues THEN [ok |-> TRUE, value |-> Bool(TRUE)]
    ELSE IF Lower(value) \in FalseValues THEN [ok |-> TRUE, value |-> Bool(FALSE)]
    ELSE [ok |-> FALSE, value |-> PyNone]

\* the file system the paths are looked up in: "f" is a file, "d" a directory
is_file(s) == s = <<"f">>

is_dir(s) == s = <<"d">>

exists(s) == is_file(s) \/ is_dir(s)

\* lines 239-242: self._input_type(selection), or _parse_bool for bool
Convert(i, text) ==
    IF i.input_type = "bool" THEN parse_bool(text)
    ELSE IF i.input_type = "int"
         THEN [ok |-> ParseInt(text).ok, value |-> Int_(ParseInt(text).n)]
    ELSE IF i.input_type = "path" THEN [ok |-> TRUE, value |-> PathV(text)]
    ELSE [ok |-> TRUE, value |-> Str(text)]

\* lines 270-282: the single-selection conversion, with the path checks
ConvertSingle(i, text) ==
    IF i.input_type = "path"
    THEN IF \/ i.path_type = "file" /\ ~ is_file(text)
            \/ i.path_type = "dir" /\ ~ is_dir(text)
            \/ i.path_type # "" /\ ~ exists(text)
         THEN [ok |-> FALSE, value |-> PyNone]
         ELSE [ok |-> TRUE, value |-> PathV(text)]
    ELSE Convert(i, text)

\* what one pass of the while loop of get_input ends in; ran lists the
\* validators called in the pass, sel is selected_values at the end of the pass
Returns(value) == [kind |-> "return", value |-> value, msg |-> "", ran |-> <<>>, sel |-> <<>>]

Retries(msg) == [kind |-> "retry", value |-> PyNone, msg |-> msg, ran |-> <<>>, sel |-> <<>>]

Raises(exc) == [kind |-> "raise", value |-> PyNone, msg |-> exc, ran |-> <<>>, sel |-> <<>>]

\* lines 251-255 and 291-295: the index of the first text option equal to the
\* value ignoring case, 0 when there is none
CaseMatch(value, items) ==
    LET hits == {k \in 1..Len(items) : items[k].t = "str" /\ Lower(items[k].s) = Lower(value.s)}
    IN  IF hits = {} THEN 0 ELSE CHOOSE k \in hits : \A j \in hits : k <= j

\* lines 236-264: the for loop over the selections, from selection k on
RECURSIVE MultiLoop(_, _, _, _)
MultiLoop(i, selections, k, selected_values) ==
    IF k > Len(selections)
    THEN [Returns(ListV(selected_values)) EXCEPT !.sel = selected_values]
    ELSE LET c == Convert(i, selections[k])
             hit == CaseMatch(c.value, i.options.items)
         IN  IF ~ c.ok
             THEN [Retries("Invalid value in selection.") EXCEPT !.sel = selected_values]
             ELSE IF ~ i.case_sensitive /\ c.value.t = "str"
             THEN IF hit = 0
                  THEN [Retries("Selection must be one of") EXCEPT !.sel = selected_values]
                  ELSE MultiLoop(i, selections, k + 1, Append(selected_values, i.options.items[hit]))
             ELSE IF ~ PyIn(c.value, i.options.items)
             THEN [Retries("Selection must be one of") EXCEPT !.sel = selected_values]
             ELSE MultiLoop(i, selections, k + 1, selected_values)

\* the validators of Input.range and Input.pattern; in the first, comparing
\* text, a path or None with a number raises TypeError
RunValidator_Exclusive(v, value) ==
    IF v.kind = "pattern"
    THEN (IF Match(v.regex, PyStr(value)) THEN Returns(value) ELSE Retries(v.msg))
    ELSE IF ~ IsNumber(value) THEN (IF v.hasMin \/ v.hasMax THEN Raises("TypeError") ELSE Returns(value))
    ELSE IF v.hasMin /\ Num(value) <= v.min THEN Retries("Value must be at least")
    ELSE IF v.hasMax /\ Num(value) >= v.max THEN Retries("Value must be at most")
    ELSE Returns(value)

RunValidator(v, value) ==
    IF v.kind = "pattern"
    THEN (IF Match(v.regex, PyStr(value)) THEN Returns(value) ELSE Retries(v.msg))
    ELSE IF ~ IsNumber(value) THEN (IF v.hasMin \/ v.hasMax THEN Raises("TypeError") ELSE Returns(value))
    ELSE IF v.hasMin /\ Num(value) < v.min THEN Retries("Value must be at least")
    ELSE IF v.hasMax /\ Num(value) > v.max THEN Retries("Value must be at most")
    ELSE Returns(value)

\* lines 303-309: the validators in order, from validator k on
RECURSIVE Validate_LastFailure(_, _, _)
Validate_LastFailure(i, value, k) ==
    IF k > Len(i.validators) THEN Returns(value)
    ELSE IF Validate_LastFailure(i, value, k + 1).kind # "return"
         THEN [Validate_LastFailure(i, value, k + 1) EXCEPT !.ran = <<k>> \o @]
         ELSE [RunValidator(i.validators[k], value) EXCEPT !.ran = <<k>>]

RECURSIVE Validate(_, _, _)
Validate(i, value, k) ==
    IF k > Len(i.validators) THEN Returns(value)
    ELSE IF RunValidator(i.validators[k], value).kind # "return"
         THEN [RunValidator(i.validators[k], value) EXCEPT !.ran = <<k>>]
         ELSE [Validate(i, value, k + 1) EXCEPT !.ran = <<k>> \o @]

\* lines 287-301: the value after the check against the options
CheckOptions_AsTyped(i, value) ==
    IF ~ i.options.set THEN Returns(value)
    ELSE IF ~ i.case_sensitive /\ value.t = "str"
         THEN IF CaseMatch(value, i.options.items) = 0 THEN Retries("Must be one of")
              ELSE Returns(value)
    ELSE IF ~ PyIn(value, i.options.items) THEN Retries("Must be one of")
    ELSE Returns(value)

CheckOptions(i, value) ==
    IF ~ i.options.set THEN Returns(value)
    ELSE IF ~ i.case_sensitive /\ value.t = "str"
         THEN IF CaseMatch(value, i.options.items) = 0 THEN Retries("Must be one of")
              ELSE Returns(i.options.items[CaseMatch(value, i.options.items)])
    ELSE IF ~ PyIn(value, i.options.items) THEN Retries("Must be one of")
    ELSE Returns(value)

\* lines 225-229: the line read is empty
EmptyInput_Validated(i) ==
    IF i.allow_empty THEN Validate(i, i.default, 1) ELSE Retries("Input cannot be empty.")

EmptyInput(i) ==
    IF i.allow_empty THEN Returns(i.default) ELSE Retries("Input cannot be empty.")

\* line 234: selected_values of a pass of the multiple-selection branch, given
\* what the pass before left in it
NewSelection_Kept(left) == left

NewSelection(left) == <<>>

\* a pass that also applies the validators to each value selected
Attempt_ValidatesSelections(i, line, left) ==
    LET raw_input == Strip(line)
        c == ConvertSingle(i, raw_input)
        checked == CheckOptions(i, c.value)
        multi == MultiLoop(i, Selections(raw_input), 1, NewSelection(left))
    IN  IF i.multiple /\ i.options.set /\ i.options.items # <<>> /\ raw_input # <<>>
        THEN IF /\ multi.kind = "return"
                /\ \E e \in 1..Len(multi.sel) : Validate(i, multi.sel[e], 1).kind # "return"
             THEN [Retries("Invalid selection.") EXCEPT !.sel = multi.sel]
             ELSE multi
        ELSE [(IF raw_input = <<>> THEN EmptyInput(i)
               ELSE IF ~ c.ok THEN Retries("Invalid value.")
               ELSE IF checked.kind # "return" THEN checked
               ELSE Validate(i, checked.value, 1)) EXCEPT !.sel = left]

\* lines 222-309: one pass of the while loop of get_input on the line read;
\* left is selected_values as the pass before left it
Attempt(i, line, left) ==
    LET raw_input == Strip(line)
        c == ConvertSingle(i, raw_input)
        checked == CheckOptions(i, c.value)
    IN  IF i.multiple /\ i.options.set /\ i.options.items # <<>> /\ raw_input # <<>>
        THEN MultiLoop(i, Selections(raw_input), 1, NewSelection(left))
        ELSE [(IF raw_input = <<>> THEN EmptyInput(i)
               ELSE IF ~ c.ok THEN Retries("Invalid value.")
               ELSE IF checked.kind # "return" THEN checked
               ELSE Validate(i, checked.value, 1)) EXCEPT !.sel = left]

\* ---------------------------------------------------------- FormGenerator
\* form.py:212-218 and 220-226, one item of a Listbox selection or the text of
\* a field: converted as it is, looked up in the options with `in`, then
\* validated; a ValueError is the field's error (lines 227-228)
FormCheck(i, text) ==
    IF ~ Convert(i, text).ok THEN Retries("Valor invalido")
    ELSE IF i.options.set /\ i.options.items # <<>> /\ ~ PyIn(Convert(i, text).value, i.options.items)
    THEN Retries("Deve ser um dos seguintes")
    ELSE Validate(i, Convert(i, text).value, 1)

\* lines 210-218: the items of a Listbox selection, from item k on
RECURSIVE FormItems(_, _, _)
FormItems(i, items, k) ==
    IF k > Len(items) THEN Returns(ListV(items))
    ELSE IF FormCheck(i, items[k].s).kind # "return" THEN FormCheck(i, items[k].s)
    ELSE FormItems(i, items, k + 1)

\* FormGenerator._validate_inputs for one field: "return" is no error
validate_inputs(i, value) ==
    IF value = PyNone \/ (value.t = "str" /\ Strip(value.s) = <<>>)
    THEN (IF ~ i.allow_empty THEN Retries("Campo obrigatorio") ELSE Returns(value))
    ELSE IF i.multiple /\ value.t = "list" THEN FormItems(i, value.items, 1)
    ELSE FormCheck(i, value.s)

\* FormGenerator._convert_values for one field
convert_values(i, value) ==
    IF value = PyNone \/ (value.t = "str" /\ Strip(value.s) = <<>>) THEN i.default
    ELSE IF i.multiple /\ value.t = "list"
    THEN ListV([k \in 1..Len(value.items) |-> Convert(i, value.items[k].s).value])
    ELSE Convert(i, value.s).value

\* FormGenerator._on_submit for one field: the errors are shown, or the result
\* is the converted value
on_submit(i, value) ==
    IF validate_inputs(i, value).kind # "return" THEN validate_inputs(i, value)
    ELSE Returns(convert_values(i, value))

\* lines 92-153: the widget a field gets
Widget(i) ==
    IF i.input_type = "bool" THEN "yesno"
    ELSE IF i.options.set THEN (IF i.multiple THEN "listbox" ELSE "dropdown")
    ELSE "entry"

\* line 121, spec._default or spec._options[0]: an empty list of options and no
\* default is an IndexError while the form is built
CreateFails(i) == Widget(i) = "dropdown" /\ i.default = PyNone /\ i.options.items = <<>>

\* lines 162-166: the items of a Listbox selected at the positions S, in order
RECURSIVE Selected(_, _, _)
Selected(items, S, k) ==
    IF k > Len(items) THEN <<>>
    ELSE (IF k \in S THEN <<Str(PyStr(items[k]))>> ELSE <<>>) \o Selected(items, S, k + 1)

\* the texts typed into a free-text Entry
FormTexts ==
    {<<>>, <<" ">>, <<"A">>, <<"a">>, <<" ", "A", " ", ",", " ", "b", " ">>,
     <<"1">>, <<"3">>, <<" ", "2">>, <<"f">>, <<"q">>}

\* lines 158-166: what the widget of a field hands to _on_submit
WidgetValues(i) ==
    IF Widget(i) = "yesno" THEN {Str(<<"Y", "e", "s">>), Str(<<"N", "o">>)}
    ELSE IF Widget(i) = "listbox"
    THEN {PyNone} \cup {ListV(Selected(i.options.items, S, 1)) :
                            S \in (SUBSET (1..Len(i.options.items))) \ {{}}}
    ELSE IF Widget(i) = "dropdown"
    THEN {Str(PyStr(i.options.items[k])) : k \in 1..Len(i.options.items)}
         \cup (IF i.default # PyNone THEN {Str(PyStr(i.default))} ELSE {})
    ELSE {Str(text) : text \in FormTexts}

NoSubmit == [op |-> "none", raw |-> PyNone, kind |-> "none", value |-> PyNone]

NoRead == [line |-> <<>>, kind |-> "none", msg |-> "", ran |-> <<>>]

\* the lines the user can type at the choice prompt
MenuLines ==
    {<<DigitChar[n]>> : n \in 1..(NumOpts + 2)}
    \cup {<<"0">>, <<"0", "0">>, <<"-", "1">>, <<"+", "1">>, <<" ", "1", " ">>, <<>>, <<"x">>,
          <<"b", "a", "c", "k">>, <<" ", "B", "a", "c", "K">>}

NoEvent == [op |-> "start", token |-> <<>>, menu |-> 0, depth |-> 0, sel |-> 0,
            invoked |-> FALSE, out |-> NoReturn, ret |-> NoReturn, cancel |-> ""]

Init ==
    /\ opts = [m \in Menus |-> MenuInit(m)]
    /\ main \in Menus
    /\ stack = <<Render(main, opts)>>
    /\ driver = "running"
    /\ flips = 0
    /\ ev = NoEvent
    /\ exitRequested = FALSE
    /\ inp = NewInput /\ ipc = "idle" /\ ires = PyNone /\ icalls = 0 /\ iev = NoRead /\ isel = <<>> /\ fev = NoSubmit
    /\ action = NoAction /\ modules = [p \in ScriptPaths |-> NoModule] /\ aev = NoExecute
    /\ option1 = NewOption("opt", "noop") /\ oev = NoOptionExecute /\ built = NoAction

Blocked(pc) == driver = "running" /\ stack # <<>> /\ Top(stack).pc = pc

Become(r, e) == stack' = r.stack /\ driver' = r.driver /\ ev' = [e EXCEPT !.ret = r.ret]

ChoiceEvent(choice) ==
    [NoEvent EXCEPT !.op = "choice", !.token = choice, !.menu = Top(stack).menu,
                    !.depth = Len(stack)]

\* display(), lines 147-188: a line is read at the choice prompt and handled,
\* up to the next blocking read or the end of the program
Choice ==
    /\ Blocked("choice")
    /\ UNCHANGED <<main, inputVars, actionVars>>
    /\ \E line \in MenuLines :
        LET choice == Lower(Strip(line))
            m == Top(stack).menu
            visible == Top(stack).vis
            e == ChoiceEvent(choice)
            parsed == ParseInt(choice)
            idx == parsed.n - 1
        IN  IF IsExit(choice) \/ IsBack(choice, m)
            THEN /\ Become(Return(stack, None, opts), e)
                 /\ exitRequested' = (exitRequested \/ IsExit(choice))
                 /\ UNCHANGED <<opts, flips>>
            ELSE IF ~ parsed.ok
            THEN /\ Become(Propagate(stack, "ValueError", TRUE), e)
                 /\ UNCHANGED <<opts, flips, exitRequested>>
            ELSE IF ~ InRange(idx, visible)
            THEN /\ Become(Goto(stack, "ack182"), e)
                 /\ UNCHANGED <<opts, flips, exitRequested>>
            ELSE IF ~ IsEnabled(opts[m][visible[idx + 1]])
            THEN /\ Become(Goto(stack, "ack166"), [e EXCEPT !.sel = visible[idx + 1]])
                 /\ UNCHANGED <<opts, flips, exitRequested>>
            ELSE \E out \in OptionExecute(opts[m][visible[idx + 1]], opts,
                                          Len(stack) < MaxDepth, flips < MaxFlips) :
                    LET o == ApplySet(opts, out.set)
                        r == HandleResult(stack, out.res, o)
                    IN  /\ Become(r, [e EXCEPT !.sel = visible[idx + 1], !.invoked = out.invoked,
                                               !.out = out.res])
                        /\ opts' = o
                        /\ flips' = IF out.set = NoSet THEN flips ELSE flips + 1
                        /\ UNCHANGED exitRequested

\* line 147: the choice read is cancelled; it is outside the try block
ChoiceCancelled ==
    /\ Blocked("choice")
    /\ \E exc \in CancelKinds :
        Become(Propagate(stack, exc, FALSE),
               [NoEvent EXCEPT !.op = "choice", !.menu = Top(stack).menu,
                               !.depth = Len(stack), !.cancel = exc])
    /\ UNCHANGED <<opts, flips, exitRequested, main, inputVars, actionVars>>

AckReads == {"ack166", "ack179", "ack182", "ack185", "ack188"}

\* the reads of lines 166, 179 and 182 are inside the try block
InTry(pc) == pc \in {"ack166", "ack179", "ack182"}

\* "Press Enter to continue...": the line is read and the loop renders again
Ack ==
    /\ \E pc \in AckReads : Blocked(pc)
    /\ Become([stack |-> Append(Pop(stack), Render(Top(stack).menu, opts)), driver |-> "running",
               ret |-> NoReturn],
              [NoEvent EXCEPT !.op = Top(stack).pc, !.menu = Top(stack).menu, !.depth = Len(stack)])
    /\ UNCHANGED <<opts, flips, exitRequested, main, inputVars, actionVars>>

\* an acknowledgement read is cancelled
AckCancelled ==
    /\ \E pc \in AckReads : Blocked(pc)
    /\ \E exc \in CancelKinds :
        Become(Propagate(stack, exc, InTry(Top(stack).pc)),
               [NoEvent EXCEPT !.op = Top(stack).pc, !.menu = Top(stack).menu,
                               !.depth = Len(stack), !.cancel = exc])
    /\ UNCHANGED <<opts, flips, exitRequested, main, inputVars, actionVars>>

Next == Choice \/ ChoiceCancelled \/ Ack \/ AckCancelled

Spec == Init /\ [][Next]_vars

\* ------------------------------------------------- the input engine at work
\* the lists handed to Input.options
OptionLists == {<<>>, <<Str(<<"A">>), Str(<<"b">>)>>, <<Int_(1), Int_(2)>>}

\* the lines the user can type at the prompt of get_input
InputLines ==
    {<<>>, <<" ">>, <<"A">>, <<"a">>, <<"b">>, <<"B">>, <<"Z">>,
     <<"A", ",", "b">>, <<"a", ",", "B">>, <<"b", ",", "A">>, <<"A", ",", "Z">>, <<"A", ",">>,
     <<" ", "A", " ", ",", " ", "b", " ">>,
     <<"1">>, <<"2">>, <<"3">>, <<"1", ",", "2">>, <<"2", ",", "1">>, <<"1", ",", "3">>,
     <<"1", ",", "x">>, <<"y">>, <<"N">>, <<"y", ",", "n">>, <<"f">>, <<"d">>, <<"q">>,
     <<"f", ",", "d">>, <<"0">>, <<"T", "R", "U", "E">>, <<"Y", "e", "s">>, <<"t">>,
     <<"F", "a", "l", "s", "e">>, <<"n", "o">>, <<"o", "n">>, <<"t", "r">>}

InitInput ==
    /\ opts = [m \in Menus |-> MenuInit(m)]
    /\ main = 1
    /\ stack = <<>>
    /\ driver = "idle"
    /\ flips = 0
    /\ ev = NoEvent
    /\ exitRequested = FALSE
    /\ inp = NewInput /\ ipc = "build" /\ ires = PyNone /\ icalls = 0 /\ iev = NoRead /\ isel = <<>> /\ fev = NoSubmit
    /\ action = NoAction /\ modules = [p \in ScriptPaths |-> NoModule] /\ aev = NoExecute
    /\ option1 = NewOption("opt", "noop") /\ oev = NoOptionExecute /\ built = NoAction

\* a chained configuration call on the Input under construction
Configure(i) ==
    /\ ipc = "build" /\ icalls < MaxCalls
    /\ inp' = i /\ icalls' = icalls + 1
    /\ UNCHANGED <<ipc, ires, iev, isel, fev, menuVars, actionVars>>

CallType == \E t \in {"str", "int", "bool", "path"} : Configure(type(inp, t))

CallPath == \E pt \in {"", "file", "dir"} : Configure(path(inp, pt))

CallDefault == \E v \in {Int_(30), PyNone} : Configure(default(inp, v))

CallAllowEmpty == \E b \in BOOLEAN : Configure(allow_empty(inp, b))

CallOptions == \E items \in OptionLists, cs \in BOOLEAN, m \in BOOLEAN : Configure(options(inp, items, cs, m))

CallMultiple == \E b \in BOOLEAN : Configure(multiple(inp, b))

CallRange ==
    \E r \in {<<TRUE, 1, TRUE, 2>>, <<TRUE, 1, FALSE, 0>>, <<FALSE, 0, TRUE, 2>>} :
        Configure(range(inp, r[1], r[2], r[3], r[4]))

CallPattern ==
    \E r \in {<<UpperClass, PatternMessage>>, <<LowerClass, "Lowercase letter required">>} :
        Configure(pattern(inp, r[1], r[2]))

\* get_input() is called: the loop blocks at the read of line 222
GetInput ==
    /\ ipc = "build"
    /\ ipc' = "prompt"
    /\ UNCHANGED <<inp, ires, icalls, iev, isel, fev, menuVars, actionVars>>

\* lines 222-309: a line is read and one pass of the loop runs on it
ReadLine ==
    /\ ipc = "prompt"
    /\ \E line \in InputLines :
        LET a == Attempt(inp, line, isel)
        IN  /\ ipc' = IF a.kind = "return" THEN "returned"
                      ELSE IF a.kind = "raise" THEN "raised" ELSE "prompt"
            /\ ires' = a.value
            /\ iev' = [line |-> line, kind |-> a.kind, msg |-> a.msg, ran |-> a.ran]
            /\ isel' = a.sel
    /\ UNCHANGED <<inp, icalls, fev, menuVars, actionVars>>

\* lines 311-316: the read is cancelled; the exception is reported and re-raised
ReadCancelled ==
    /\ ipc = "prompt"
    /\ \E exc \in CancelKinds :
        /\ ipc' = "cancelled"
        /\ iev' = [line |-> <<>>, kind |-> "cancel", msg |-> exc, ran |-> <<>>]
    /\ UNCHANGED <<inp, ires, icalls, isel, fev, menuVars, actionVars>>

\* form.py:50-72: the Input is added to a FormGenerator and the form is shown
ShowForm ==
    /\ ipc = "build"
    /\ ipc' = IF CreateFails(inp) THEN "raised" ELSE "form"
    /\ UNCHANGED <<inp, ires, icalls, iev, isel, fev, menuVars, actionVars>>

\* form.py:154-175: the submit button; the window closes when there is no
\* error, and stays open on an error or on an exception of the callback
Submit ==
    /\ ipc = "form"
    /\ \E value \in WidgetValues(inp) :
        LET r == on_submit(inp, value)
        IN  /\ fev' = [op |-> "submit", raw |-> value, kind |-> r.kind, value |-> r.value]
            /\ ipc' = IF r.kind = "return" THEN "submitted" ELSE "form"
    /\ UNCHANGED <<inp, ires, icalls, iev, isel, menuVars, actionVars>>

\* form.py:177-182: the cancel button; the result is None
Cancel ==
    /\ ipc = "form"
    /\ fev' = [op |-> "cancel", raw |-> PyNone, kind |-> "none", value |-> PyNone]
    /\ ipc' = "closed"
    /\ UNCHANGED <<inp, ires, icalls, iev, isel, menuVars, actionVars>>

NextInput ==
    \/ CallType \/ CallPath \/ CallDefault \/ CallAllowEmpty \/ CallOptions \/ CallMultiple
    \/ CallRange \/ CallPattern \/ GetInput \/ ReadLine \/ ReadCancelled
    \/ ShowForm \/ Submit \/ Cancel

SpecInput == InitInput /\ [][NextInput]_vars

\* ------------------------------------------------------ the Actions at work
\* the modules that exist on the import path and the names each defines
ModuleWorlds ==
    [ScriptPaths -> {NoModule} \cup {[found |-> TRUE, names |-> n] : n \in SUBSET AttrNames}]

InitAction ==
    /\ opts = [m \in Menus |-> MenuInit(m)]
    /\ main = 1
    /\ stack = <<>>
    /\ driver = "idle"
    /\ flips = 0
    /\ ev = NoEvent
    /\ exitRequested = FALSE
    /\ inp = NewInput /\ ipc = "idle" /\ ires = PyNone /\ icalls = 0 /\ iev = NoRead
    /\ isel = <<>> /\ fev = NoSubmit
    /\ action = NoAction /\ modules \in ModuleWorlds /\ aev = NoExecute
    /\ option1 = NewOption("opt", "noop") /\ oev = NoOptionExecute /\ built = NoAction

\* Action(script_path, entry_function) is built
NewAction ==
    /\ action.variant = "none"
    /\ \E p \in ScriptPaths, f \in AttrNames : action' = Action_init(p, f)
    /\ built' = action'
    /\ UNCHANGED <<modules, aev, option1, oev, menuVars, inputVars>>

\* FunctionAction(func) is built
NewFunctionAction ==
    /\ action.variant = "none"
    /\ action' = FunctionAction_init
    /\ built' = action'
    /\ UNCHANGED <<modules, aev, option1, oev, menuVars, inputVars>>

\* action.script_path = p: the attribute of line 43 is assigned after construction
SetScriptPath ==
    /\ action.variant = "deferred"
    /\ \E p \in ScriptPaths : action' = [action EXCEPT !.script_path = p]
    /\ UNCHANGED <<modules, aev, option1, oev, built, menuVars, inputVars>>

\* action.entry_function = f: the attribute of line 44 is assigned after construction
SetEntryFunction ==
    /\ action.variant = "deferred"
    /\ \E f \in AttrNames : action' = [action EXCEPT !.entry_function = f]
    /\ UNCHANGED <<modules, aev, option1, oev, built, menuVars, inputVars>>

\* execute() is called on the Action; the callable, if it gets called, returns
\* or raises
Execute ==
    /\ action.variant # "none"
    /\ \E did \in ExternalResults(FALSE) :
            aev' = IF action.variant = "deferred" THEN Action_execute(action, modules, did)
                   ELSE FunctionAction_execute(action, did)
    /\ UNCHANGED <<action, modules, option1, oev, built, menuVars, inputVars>>

NextAction == NewAction \/ NewFunctionAction \/ SetScriptPath \/ SetEntryFunction \/ Execute

SpecAction == InitAction /\ [][NextAction]_vars

\* ------------------------------------------------------- an Option at work
\* an Option is built with the dataclass defaults, its flags are set and
\* execute() is called on it
InitOption ==
    /\ opts = [m \in Menus |-> MenuInit(m)]
    /\ main = 1
    /\ stack = <<>>
    /\ driver = "idle"
    /\ flips = 0
    /\ ev = NoEvent
    /\ exitRequested = FALSE
    /\ inp = NewInput /\ ipc = "idle" /\ ires = PyNone /\ icalls = 0 /\ iev = NoRead
    /\ isel = <<>> /\ fev = NoSubmit
    /\ action = NoAction /\ modules = [p \in ScriptPaths |-> NoModule] /\ aev = NoExecute
    /\ option1 \in {NewOption(n, a) : n \in {"opt", "back"}, a \in {"ext", "noop"}}
    /\ oev = NoOptionExecute /\ built = NoAction

SetEnabled ==
    /\ \E b \in BOOLEAN : option1' = set_enabled(option1, b)
    /\ UNCHANGED <<action, modules, aev, oev, built, menuVars, inputVars>>

SetVisible ==
    /\ \E b \in BOOLEAN : option1' = set_visible(option1, b)
    /\ UNCHANGED <<action, modules, aev, oev, built, menuVars, inputVars>>

\* Option.execute() is called on the Option, whatever its flags are
ExecuteOption ==
    /\ \E out \in OptionExecute(option1, opts, FALSE, FALSE) : oev' = OptionExecuted(option1, out)
    /\ UNCHANGED <<action, modules, aev, option1, built, menuVars, inputVars>>

NextOption == SetEnabled \/ SetVisible \/ ExecuteOption

SpecOption == InitOption /\ [][NextOption]_vars

\* ================================================================= claims
BackToken == <<"b", "a", "c", "k">>

\* the last step was a choice read that returned a line
ChoiceMade == ev.op = "choice" /\ ev.cancel = ""

\* the last step was an acknowledgement read at pc that returned a line
Acked(pc) == ev.op = pc /\ ev.cancel = ""

\* after an acknowledgement the same display() is at its next choice read,
\* freshly rendered
Rerendered == Len(stack) = ev.depth /\ Top(stack) = Render(ev.menu, opts) /\ driver = "running"

\* the display() that read the last choice is still running, blocked at pc
StillAt(pc) == Len(stack) = ev.depth /\ Top(stack) = At(ev.menu, pc) /\ driver = "running"

\* C1: once "0" has been entered at any Menu, at any depth, the navigation of
\* the whole program is over: no display() is left running
C1_ExitEndsProgram == exitRequested => (stack = <<>> /\ driver = "returned")

\* C2: when the Action of the selected Option returns a non-null value that is
\* not a Menu, display() returns exactly that value in the same pass; a nested
\* display() is gone from the stack and its caller is at line 179
C2_ValueEndsLoop ==
    (ChoiceMade /\ ev.out.k = "val") =>
        /\ ev.ret = ev.out
        /\ ev.depth > 1 => (Len(stack) = ev.depth - 1 /\ Top(stack).pc = "ack179")

C2_Witness == ChoiceMade /\ ev.out = Val(0) /\ ev.ret = Val(0) /\ ev.depth = 2

\* C3: a numeric choice of a visible Option that is disabled at that pass never
\* invokes its Action: the same display() waits at line 166 (after reporting the
\* Option as disabled) with nothing changed, and renders again after the read
C3_DisabledNeverInvoked ==
    [][/\ (ev'.op = "choice" /\ ev'.cancel = "" /\ ev'.sel # 0
            /\ ~ opts[ev'.menu][ev'.sel].enabled) =>
                /\ ~ ev'.invoked
                /\ stack' = Append(Pop(stack), At(Top(stack).menu, "ack166"))
                /\ driver' = "running" /\ opts' = opts
       /\ (ev'.op = "ack166" /\ ev'.cancel = "") =>
                /\ stack' = Append(Pop(stack), Render(Top(stack).menu, opts))
                /\ driver' = "running" /\ opts' = opts]_vars

C3_Witness == ChoiceMade /\ ev.sel # 0 /\ ~ opts[ev.menu][ev.sel].enabled /\ StillAt("ack166")

\* C4: "back" ends the loop of a Menu that has a parent, dispatching nothing; on
\* a parentless Menu it is an invalid choice (the ValueError branch, line 185)
\* and the same display() renders again after the acknowledgement
C4_BackNeedsParent ==
    /\ (ChoiceMade /\ ev.token = BackToken) => (ev.sel = 0 /\ ~ ev.invoked)
    /\ (ChoiceMade /\ ev.token = BackToken /\ Parent[ev.menu] # 0) =>
            /\ ev.ret = None
            /\ ev.depth > 1 => (Len(stack) = ev.depth - 1 /\ Top(stack).pc = "ack179")
            /\ ev.depth = 1 => (stack = <<>> /\ driver = "returned")
    /\ (ChoiceMade /\ ev.token = BackToken /\ Parent[ev.menu] = 0) =>
            (ev.ret = NoReturn /\ StillAt("ack185"))
    /\ Acked("ack185") => Rerendered

C4_Witness == ChoiceMade /\ ev.token = BackToken /\ Parent[ev.menu] = 0 /\ ev.depth = 2 /\ StillAt("ack185")

\* C5: an error raised by the execution of the selected Option (ImportError,
\* AttributeError, ValueError, RuntimeError) is caught by the loop: display()
\* neither returns nor raises, waits at line 185 or 188, and renders again
C5_ActionFailureNonFatal ==
    /\ (ChoiceMade /\ ev.sel # 0 /\ ev.out.k = "raise" /\ ev.out.exc \in ErrorKinds) =>
            /\ ev.ret = NoReturn
            /\ StillAt("ack185") \/ StillAt("ack188")
    /\ (Acked("ack185") \/ Acked("ack188")) => Rerendered

C5_Witness == ChoiceMade /\ ev.invoked /\ ev.out = Raise("ImportError") /\ StillAt("ack188")

\* C6: a cancellation (EOFError or KeyboardInterrupt) raised by the choice
\* read, by an acknowledgement read or inside a dispatched Action always leaves
\* every display() and reaches the top-level driver
C6_CancellationPropagates ==
    (ev.cancel # "" \/ (ChoiceMade /\ ev.out.k = "raise" /\ ev.out.exc \in CancelKinds)) =>
        (stack = <<>> /\ driver \in {"interrupted", "failed"})

\* C7: when an Action returns a Menu, that Menu's display() runs on top of the
\* current one; whatever it returns, the current display() does not return it
\* but goes on to line 179 and renders again
C7_NestedResultDropped ==
    /\ (ChoiceMade /\ ev.out.k = "menu") =>
            /\ Len(stack) = ev.depth + 1
            /\ stack[ev.depth] = At(ev.menu, "in175")
            /\ Top(stack) = Render(ev.out.v, opts)
    /\ (ChoiceMade /\ ev.depth > 1 /\ ev.ret # NoReturn) =>
            /\ Len(stack) = ev.depth - 1
            /\ Top(stack).pc = "ack179"
            /\ driver = "running"
    /\ Acked("ack179") => Rerendered

C7_Witness ==
    ChoiceMade /\ ev.depth = 2 /\ ev.ret = Val(42) /\ Len(stack) = 1 /\ Top(stack).pc = "ack179"

\* C8: in a Menu with a parent the numbered entries 1..N are the supplied
\* Options only, so that whatever a numeric choice selects is one of them and
\* never the synthesized back Option
C8_BackNotNumbered ==
    (ChoiceMade /\ Parent[ev.menu] # 0 /\ ev.sel # 0) =>
        (ev.sel \in 1..NumOpts /\ opts[ev.menu][ev.sel].name # "back")

\* option i of the list is the k-th visible one
IsKthVisible(listed, k, i) ==
    /\ i \in 1..Len(listed)
    /\ listed[i].visible
    /\ Cardinality({j \in 1..i : listed[j].visible}) = k

NumVisible(listed) == Cardinality({j \in 1..Len(listed) : listed[j].visible})

\* C9: a numeric choice k with 1 <= k <= N, N the number of Options visible at
\* that pass, selects exactly the k-th visible Option of the list as it is at
\* that pass, and executes it when it is enabled; no other choice selects an
\* Option, and a hidden one is never selected
C9_NumberingOfThePass ==
    [][(ev'.op = "choice" /\ ev'.cancel = "") =>
        LET k == ParseInt(ev'.token).n
            listed == opts[ev'.menu]
            numeric == ParseInt(ev'.token).ok /\ ev'.token # <<"0">>
        IN  /\ (numeric /\ 1 <= k /\ k <= NumVisible(listed)) => IsKthVisible(listed, k, ev'.sel)
            /\ ev'.sel # 0 => (numeric /\ IsKthVisible(listed, k, ev'.sel))
            /\ ev'.invoked = (ev'.sel # 0 /\ listed[ev'.sel].enabled)]_vars

C9_Witness ==
    ChoiceMade /\ ev.invoked /\ ev.sel > ParseInt(ev.token).n /\ flips > 0 /\ opts[ev.menu][ev.sel].name = "opt"

\* the multiple-selection branch of get_input is the one taken
MultiMode(i) == i.multiple /\ i.options.set /\ i.options.items # <<>>

\* the index of the permitted value the text of one selection stands for, 0
\* when it does not convert or is no member
MatchOf(i, text) ==
    LET c == Convert(i, text)
        hits == {k \in 1..Len(i.options.items) :
                    IF ~ i.case_sensitive /\ c.value.t = "str"
                    THEN i.options.items[k].t = "str" /\ Lower(i.options.items[k].s) = Lower(c.value.s)
                    ELSE PyEq(c.value, i.options.items[k])}
    IN  IF ~ c.ok \/ hits = {} THEN 0 ELSE CHOOSE k \in hits : \A j \in hits : k <= j

\* the last line read was not empty and each of its selections is permitted
AllPermitted(i, line) ==
    /\ Strip(line) # <<>>
    /\ \A k \in 1..Len(Selections(Strip(line))) : MatchOf(i, Selections(Strip(line))[k]) # 0

\* C10: in multiple-selection mode a line whose selections all convert and are
\* permitted makes get_input return the list of the permitted values matched,
\* one per selection and in input order, whatever the value kind and the
\* case-sensitivity flag
C10_MultiSelectReturnsMatches ==
    (MultiMode(inp) /\ iev.kind \in {"return", "retry", "raise"} /\ AllPermitted(inp, iev.line)) =>
        /\ iev.kind = "return"
        /\ ires = ListV([k \in 1..Len(Selections(Strip(iev.line))) |->
                            inp.options.items[MatchOf(inp, Selections(Strip(iev.line))[k])]])

\* a line was read in the last step and it was not empty
ReadNonEmpty == iev.kind \in {"return", "retry", "raise"} /\ Strip(iev.line) # <<>>

\* the selections of the last line read
LastSelections == Selections(Strip(iev.line))

\* C11: in multiple-selection mode a line with a selection that does not
\* convert or is not permitted returns nothing: the pass ends in a message and
\* the prompt is shown again; and every value of a returned list is matched by
\* a selection of the line that returned it, never by one of an earlier line
C11_MultiSelectFailureAtomic ==
    /\ (MultiMode(inp) /\ ReadNonEmpty /\ ~ AllPermitted(inp, iev.line)) =>
            (iev.kind = "retry" /\ ipc = "prompt" /\ ires = PyNone)
    /\ (MultiMode(inp) /\ ReadNonEmpty /\ iev.kind = "return") =>
            /\ ires.t = "list"
            /\ \A e \in 1..Len(ires.items) : \E k \in 1..Len(LastSelections) :
                    /\ MatchOf(inp, LastSelections[k]) # 0
                    /\ ires.items[e] = inp.options.items[MatchOf(inp, LastSelections[k])]

\* a line whose first selection matched and whose second was refused
C11_Witness ==
    /\ MultiMode(inp) /\ ReadNonEmpty /\ iev.kind = "retry" /\ ipc = "prompt"
    /\ isel # <<>> /\ MatchOf(inp, LastSelections[1]) # 0

\* a line was read in the last step and it was empty once trimmed
ReadEmpty == iev.kind \in {"return", "retry", "raise"} /\ Strip(iev.line) = <<>>

\* C12: a line that is empty once trimmed makes get_input return exactly the
\* configured default, with no validator run and whatever the type, the
\* options and the validators are, when empty input is allowed; otherwise the
\* pass reports that the input cannot be empty and the prompt is shown again
C12_EmptyInput ==
    ReadEmpty =>
        IF inp.allow_empty
        THEN iev.kind = "return" /\ ipc = "returned" /\ ires = inp.default /\ iev.ran = <<>>
        ELSE iev.kind = "retry" /\ iev.msg = "Input cannot be empty." /\ ipc = "prompt"

\* the default 30 is returned though the range validator would refuse it
C12_Witness ==
    /\ ReadEmpty /\ ipc = "returned" /\ ires = Int_(30)
    /\ Len(inp.validators) = 1 /\ inp.validators[1].hasMax /\ inp.validators[1].max < 30

\* C13: a path field in single-selection mode returns on a non-empty line only
\* if the path exists, whatever the path kind configured, and the path is a
\* file when the kind is file and a directory when it is dir; a path that does
\* not exist ends the pass in a message and the prompt is shown again
C13_PathMustExist ==
    (inp.input_type = "path" /\ ~ MultiMode(inp) /\ ReadNonEmpty) =>
        /\ iev.kind = "return" =>
                /\ exists(Strip(iev.line))
                /\ inp.path_type = "file" => is_file(Strip(iev.line))
                /\ inp.path_type = "dir" => is_dir(Strip(iev.line))
        /\ ~ exists(Strip(iev.line)) => (iev.kind = "retry" /\ ipc = "prompt")

\* the last line read, in single-selection mode, converted and passed the
\* check against the options: the pass reached the validators
ReachedValidators ==
    /\ ~ MultiMode(inp) /\ ReadNonEmpty
    /\ ConvertSingle(inp, Strip(iev.line)).ok
    /\ CheckOptions(inp, ConvertSingle(inp, Strip(iev.line)).value).kind = "return"

\* the value the validators are called with
Validated == CheckOptions(inp, ConvertSingle(inp, Strip(iev.line)).value).value

\* the verdict of validator k on the value of the last pass
Verdict(k) == RunValidator(inp.validators[k], Validated)

\* C14: in single-selection mode the validators are called in declaration
\* order on the converted value: when validator k is the first that does not
\* accept it, validators 1..k and no other were called, in that order, its
\* message is the one shown and the prompt is shown again; the value is
\* returned only when every validator was called and accepted it
C14_ValidatorsInOrder ==
    ReachedValidators =>
        /\ \A k \in 1..Len(inp.validators) :
                (Verdict(k).kind = "retry" /\ \A j \in 1..(k - 1) : Verdict(j).kind = "return") =>
                    /\ iev.kind = "retry" /\ ipc = "prompt"
                    /\ iev.msg = Verdict(k).msg
                    /\ iev.ran = [j \in 1..k |-> j]
        /\ iev.kind = "return" =>
                /\ \A k \in 1..Len(inp.validators) : Verdict(k).kind = "return"
                /\ iev.ran = [j \in 1..Len(inp.validators) |-> j]
                /\ ires = Validated

\* both validators refuse the value: the first is called, the second is not
C14_Witness ==
    /\ ReachedValidators /\ Len(inp.validators) = 2
    /\ Verdict(1).kind = "retry" /\ Verdict(2).kind = "retry" /\ Verdict(1).msg # Verdict(2).msg
    /\ iev.kind = "retry" /\ iev.msg = Verdict(1).msg /\ iev.ran = <<1>> /\ ipc = "prompt"

IntegerInRangeField ==
    /\ inp.input_type = "int" /\ ~ inp.options.set
    /\ Len(inp.validators) = 1 /\ inp.validators[1].kind = "range"
    /\ ReadNonEmpty /\ ParseInt(Strip(iev.line)).ok

\* the integer typed on the last line
Typed == ParseInt(Strip(iev.line)).n

\* C16: on an integer field with a range the integer typed is returned exactly
\* when it is not below the minimum, if one is set, and not above the maximum,
\* if one is set: both bounds are themselves accepted, a bound that is not
\* set does not constrain, and a refused value shows the prompt again
C16_RangeInclusive ==
    IntegerInRangeField =>
        IF /\ inp.validators[1].hasMin => Typed >= inp.validators[1].min
           /\ inp.validators[1].hasMax => Typed <= inp.validators[1].max
        THEN iev.kind = "return" /\ ipc = "returned" /\ ires = Int_(Typed)
        ELSE iev.kind = "retry" /\ ipc = "prompt"

\* with both bounds set the maximum itself is returned
C16_Witness ==
    /\ IntegerInRangeField /\ inp.validators[1].hasMin /\ inp.validators[1].hasMax
    /\ Typed = inp.validators[1].max /\ ipc = "returned" /\ ires = Int_(Typed)

\* a boolean field without options and validators, and the last line read is
\* not empty
BooleanField ==
    inp.input_type = "bool" /\ ~ inp.options.set /\ inp.validators = <<>> /\ ReadNonEmpty

\* the last line read, trimmed and in lower case
TypedLower == Lower(Strip(iev.line))

\* C17: a boolean field returns true exactly for the literals true, t, yes, y
\* and 1 and false exactly for false, f, no, n and 0, in any letter case; any
\* other text is a conversion failure: nothing is returned and the prompt is
\* shown again
C17_BooleanLiterals ==
    BooleanField =>
        IF TypedLower \in {<<"t", "r", "u", "e">>, <<"t">>, <<"y", "e", "s">>, <<"y">>, <<"1">>}
        THEN ipc = "returned" /\ ires = Bool(TRUE)
        ELSE IF TypedLower \in {<<"f", "a", "l", "s", "e">>, <<"f">>, <<"n", "o">>, <<"n">>, <<"0">>}
        THEN ipc = "returned" /\ ires = Bool(FALSE)
        ELSE iev.kind = "retry" /\ iev.msg = "Invalid value." /\ ipc = "prompt"

\* a literal typed in capitals is converted
C17_Witness ==
    BooleanField /\ Strip(iev.line) = <<"T", "R", "U", "E">> /\ ipc = "returned" /\ ires = Bool(TRUE)

\* a field with options in single-selection mode, and the last line read
\* converted
SingleChoice ==
    /\ inp.options.set /\ ~ MultiMode(inp) /\ ReadNonEmpty
    /\ ConvertSingle(inp, Strip(iev.line)).ok

\* the converted value of the last line read
Converted == ConvertSingle(inp, Strip(iev.line)).value

\* the option the last line read stands for, 0 when it stands for none
Member == MatchOf(inp, Strip(iev.line))

\* C18: with options set, a converted value that is no member (ignoring case
\* for text when case-sensitivity is off, exactly otherwise) is refused before
\* any validator runs and the prompt is shown again; a member is returned, as
\* the option is stored when text is matched ignoring case and as converted
\* otherwise; and in multiple-selection mode a line returns exactly when each
\* of its selections is a member by the same rule
C18_Membership ==
    /\ (SingleChoice /\ Member = 0) =>
            (iev.kind = "retry" /\ iev.msg = "Must be one of" /\ iev.ran = <<>> /\ ipc = "prompt")
    /\ (SingleChoice /\ Member # 0 /\ inp.validators = <<>>) =>
            /\ ipc = "returned"
            /\ ires = IF ~ inp.case_sensitive /\ Converted.t = "str"
                       THEN inp.options.items[Member] ELSE Converted
    /\ (MultiMode(inp) /\ ReadNonEmpty) => (iev.kind = "return" <=> AllPermitted(inp, iev.line))

\* "a" typed with case-sensitivity off returns the option "A"
C18_Witness ==
    /\ SingleChoice /\ ~ inp.case_sensitive /\ Member # 0
    /\ Converted = Str(<<"a">>) /\ ipc = "returned" /\ ires = Str(<<"A">>)

\* execute() was called on an Action built from a module path
DeferredExecuted == aev.op = "execute" /\ aev.variant = "deferred" /\ action.variant = "deferred"

\* the module the path of the executed Action stands for
Target == modules[aev.script_path]

\* C19: execute() of an Action built from a module path imports the module,
\* then looks the entry function up, then calls it: when the module is not
\* found it raises ImportError with a diagnostic naming the path; when the
\* module is found but does not define the entry function it raises
\* AttributeError with a message naming path and entry function and listing
\* exactly the names of the module that do not start with an underscore; in
\* both cases, and only in them, the entry function is not called
C19_ResolveCheckInvoke ==
    DeferredExecuted =>
        /\ ~ Target.found =>
                /\ aev.res = Raise("ImportError") /\ aev.printed = "importing"
                /\ aev.ident = <<aev.script_path>> /\ ~ aev.invoked
        /\ (Target.found /\ aev.entry_function \notin Target.names) =>
                /\ aev.res = Raise("AttributeError") /\ aev.printed = "attribute"
                /\ aev.ident = <<aev.script_path, aev.entry_function>>
                /\ aev.listed = {n \in AttrNames : n \in Target.names /\ Head(n) # "_"}
                /\ ~ aev.invoked
        /\ aev.invoked <=> (Target.found /\ aev.entry_function \in Target.names)

\* the module defines a public and a private name but not the entry function
C19_Witness ==
    /\ DeferredExecuted /\ Target.found /\ aev.entry_function = <<"r", "u", "n">>
    /\ Target.names = {<<"m", "a", "i", "n">>, <<"_", "h">>}
    /\ aev.res = Raise("AttributeError") /\ aev.listed = {<<"m", "a", "i", "n">>} /\ ~ aev.invoked

\* C20: for both kinds of Action, an exception the callable raises when
\* execute() calls it leaves execute() as that same exception and is reported
\* by the diagnostic of a failed execution, which names the path and the entry
\* function (or the function), whatever the exception is; it is never
\* reported by the diagnostic of a failed import or of a missing entry function
C20_InvocationFailureReported ==
    (aev.op = "execute" /\ aev.invoked /\ aev.res.k = "raise" /\ aev.res.exc \in ExceptionKinds) =>
        /\ aev.printed \in {"executing", "function"}
        /\ aev.printed = "executing" => aev.ident = <<aev.script_path, aev.entry_function>>
        /\ aev.printed = "function" => aev.ident # <<>>

\* C21: Option.execute() calls the Action exactly when the Option is enabled,
\* whatever its visible flag is, and then its outcome is the Action's; on a
\* disabled Option it raises RuntimeError with a message that names the Option
\* and the Action is not called
C21_ExecuteOnlyIfEnabled ==
    oev.op = "execute" =>
        /\ oev.out.invoked <=> oev.option.enabled
        /\ ~ oev.option.enabled =>
                /\ oev.out.res = Raise("RuntimeError")
                /\ oev.msg # <<>> /\ oev.msg[Len(oev.msg)] = oev.option.name
        /\ oev.option.enabled =>
                /\ oev.out.res \in ExternalResults(FALSE)
                /\ oev.option.act = "noop" => oev.out.res = None
                /\ oev.msg = <<>>

\* an Option that is enabled and hidden has its Action called
C21_Witness ==
    /\ oev.op = "execute" /\ oev.option.enabled /\ ~ oev.option.visible
    /\ oev.out.invoked /\ oev.out.res = Val(42)

\* C22: whatever chain of configuration calls built the Input, a default that
\* is set (not None) goes with allow-empty being true
C22_DefaultImpliesAllowEmpty == inp.default # PyNone => inp.allow_empty

\* the last choice was "0", or "back" on a Menu with a parent
LeaveChosen ==
    ChoiceMade /\ (ev.token = <<"0">> \/ (ev.token = BackToken /\ Parent[ev.menu] # 0))

\* C23: when the display() that read the last choice returned, it returned
\* None exactly if the choice was "0", or "back" on a Menu with a parent, and
\* then no Action was called; otherwise it returned the value, neither None
\* nor a Menu, that the Action called in that pass returned. No other step
\* makes a display() return, and an Action that returns None leaves display()
\* at the acknowledgement read of line 179, after which it renders again
C23_ReturnedValues ==
    /\ (ChoiceMade /\ ev.ret # NoReturn) =>
            IF LeaveChosen THEN ev.ret = None /\ ~ ev.invoked
            ELSE ev.ret.k = "val" /\ ev.invoked /\ ev.ret = ev.out
    /\ LeaveChosen => ev.ret = None
    /\ ~ ChoiceMade => ev.ret = NoReturn
    /\ (ChoiceMade /\ ev.invoked /\ ev.out = None) => (ev.ret = NoReturn /\ StillAt("ack179"))
    /\ (Acked("ack179") /\ ev.depth = 1) => (Rerendered /\ ev.menu = main)

\* a called Action returned None and display() waits for the acknowledgement
C23_Witness == ChoiceMade /\ ev.invoked /\ ev.out = None /\ ev.ret = NoReturn /\ StillAt("ack179")

\* C24: whatever exception (deriving from Exception) the called Action raises,
\* display() reports it by the diagnostic of line 187, which shows the
\* message of the exception, and waits at the acknowledgement read of line 188
C24_FailureMessageShown ==
    (ChoiceMade /\ ev.invoked /\ ev.out.k = "raise" /\ ev.out.exc \in ExceptionKinds) =>
        (ev.ret = NoReturn /\ StillAt("ack188"))

\* the tokens that number one of the n entries listed: 1..n, with or without
\* a plus sign
NumberTokens(n) == UNION {{<<DigitChar[d]>>, <<"+", DigitChar[d]>>} : d \in 1..n}

\* a token that is neither "0", nor "back" on a Menu with a parent, nor the
\* number of one of the n entries listed
InvalidToken(token, m, n) ==
    /\ token # <<"0">>
    /\ ~ (token = BackToken /\ Parent[m] # 0)
    /\ token \notin NumberTokens(n)

\* C25: a choice that is not the number of a listed entry (a number out of
\* range, a negative number, text that is no number, "back" on a parentless
\* Menu) calls no Action and changes no Option: the same display() reports it
\* and waits at line 182 or 185, and after that read it renders the same
\* Menu from the same Options
C25_InvalidChoiceNoEffect ==
    [][/\ (ev'.op = "choice" /\ ev'.cancel = ""
            /\ InvalidToken(ev'.token, ev'.menu, Len(Top(stack).vis))) =>
                /\ ~ ev'.invoked /\ ev'.sel = 0 /\ ev'.ret = NoReturn
                /\ opts' = opts /\ driver' = "running"
                /\ Pop(stack') = Pop(stack)
                /\ Top(stack').menu = Top(stack).menu
                /\ Top(stack').pc \in {"ack182", "ack185"}
       /\ (ev'.op \in {"ack182", "ack185"} /\ ev'.cancel = "") =>
                /\ opts' = opts /\ driver' = "running"
                /\ stack' = Append(Pop(stack), Render(Top(stack).menu, opts))]_vars

\* "-1" was typed and the Menu waits at the read of line 182
C25_Witness == ChoiceMade /\ ev.token = <<"-", "1">> /\ ~ ev.invoked /\ StillAt("ack182")

\* C26: after a choice that is not the number of a listed entry (no Action
\* called) the same display() is at once at its next choice read, the Menu
\* rendered again: the next line read is taken as a choice and no
\* acknowledgement is read in between
C26_InvalidChoiceReappears ==
    (ChoiceMade /\ ~ ev.invoked /\ ev.sel = 0
        /\ InvalidToken(ev.token, ev.menu, NumVisible(opts[ev.menu]))) => Rerendered

\* C27: building an Action imports nothing and raises nothing, whether or not
\* its module can be found; and each execute() works on the path and the
\* entry function the Action holds at that call: it imports the module of
\* that path and calls that entry function, whatever the constructor was given
C27_LateBinding ==
    [][/\ (action.variant = "none" /\ action'.variant = "deferred") =>
                (aev' = aev /\ built' = action')
       /\ (action.variant = "deferred" /\ aev' # aev) =>
                /\ aev'.script_path = action.script_path
                /\ aev'.entry_function = action.entry_function
                /\ aev'.invoked <=>
                        /\ modules[action.script_path].found
                        /\ action.entry_function \in modules[action.script_path].names]_vars

\* built on a path with no module, then given the path of a module that
\* defines the entry function: execute() called it
C27_Witness ==
    /\ built.variant = "deferred" /\ ~ modules[built.script_path].found
    /\ action.script_path # built.script_path
    /\ aev.op = "execute" /\ aev.script_path = action.script_path /\ aev.invoked

\* C28: run_as_main has returned only if the last step was a choice read by
\* the display() of the main Menu that made it return None ("0", or "back"
\* when the main Menu has a parent); and when that display() returns a value
\* that is not None, run_as_main drops it and display() of the main Menu is
\* running again, freshly rendered
C28_MainLoopEndsOnNone ==
    /\ driver = "returned" =>
            (stack = <<>> /\ LeaveChosen /\ ev.depth = 1 /\ ev.menu = main /\ ev.ret = None)
    /\ (ChoiceMade /\ ev.depth = 1 /\ ev.ret.k = "val") =>
            (driver = "running" /\ stack = <<Render(main, opts)>> /\ ev.menu = main)

\* the falsy value 0 came back from display() and the main Menu is shown again
C28_Witness ==
    /\ ChoiceMade /\ ev.depth = 1 /\ ev.ret = Val(0)
    /\ driver = "running" /\ stack = <<Render(main, opts)>>

\* C29: in multiple-selection mode no validator is called: a line whose
\* selections all convert and are permitted is returned whatever the
\* validators would say of its values; in single-selection mode a value that
\* a validator refuses is never returned
C29_MultiSelectSkipsValidators ==
    /\ (MultiMode(inp) /\ ReadNonEmpty) =>
            /\ iev.ran = <<>>
            /\ AllPermitted(inp, iev.line) => (iev.kind = "return" /\ ipc = "returned")
    /\ (ReachedValidators /\ \E k \in 1..Len(inp.validators) : Verdict(k).kind = "retry") =>
            (iev.kind # "return" /\ ipc # "returned")

\* the list returned holds a value the validator configured refuses
C29_Witness ==
    /\ MultiMode(inp) /\ ReadNonEmpty /\ ipc = "returned" /\ Len(inp.validators) = 1
    /\ ires.t = "list" /\ ires.items # <<>>
    /\ RunValidator(inp.validators[1], ires.items[1]).kind = "retry"


\* the form was submitted with the text of a field (not a Listbox selection)
SubmittedText == fev.op = "submit" /\ fev.raw.t = "str"

\* C30: whatever the Input and the text of its field, the form accepts the text
\* exactly when one attempt of the prompt on the same text returns a value, and
\* then the form's converted value is the value the prompt returns
C30_FormAgreesWithConsole ==
    SubmittedText =>
        LET a == Attempt(inp, fev.raw.s, <<>>)
        IN  /\ (fev.kind = "return") <=> (a.kind = "return")
            /\ fev.kind = "return" => fev.value = a.value

====
